---- MODULE Spec2Model ----
(***************************************************************************)
(* A model of sprinkler_check.py: the nightly precipitation / pressure /   *)
(* forecast report.                                                        *)
(*                                                                         *)
(* Units.  Time is in whole seconds since an arbitrary epoch that falls on *)
(* a UTC midnight; observation timestamps are UTC instants, as the API     *)
(* returns them, so a timestamp's calendar date is  t \div Day.            *)
(* Precipitation depths are integers in tenths of a millimetre, inch       *)
(* totals are integers in hundredths of an inch (two decimals), pressures  *)
(* are integers in pascals and reported pressures are integers in tenths   *)
(* of a hectopascal (one decimal).                                         *)
(*                                                                         *)
(* An optional value (Python's None or a value) is the empty sequence or a *)
(* one-element sequence.                                                   *)
(***************************************************************************)
EXTENDS Integers, Sequences, FiniteSets

VARIABLES
    now,            \* datetime.now() of the run
    pc,             \* position of the function or of main()
    observations,   \* data['features'] of the observations response
    i,              \* number of observations the for loop has taken
    hours,          \* get_precipitation_data's parameter hours
    precip,         \* locals of get_precipitation_data
    pressure,       \* locals of get_pressure_data
    ret,            \* the value the function returned
    config_file,    \* config.toml on disk
    config,         \* main's config, once loaded
    calls,          \* the calls main() has made, in order, with their outcome
    outbox,         \* the messages the SMTP server has accepted
    station_id,     \* main's locals
    precip_data,
    pressure_data,
    forecast,
    report,         \* the parts of email_body
    error,          \* the exception main's handler caught
    exit_status     \* what main() returned

fnVars == <<observations, i, hours, precip, pressure, ret>>

mainVars == <<config_file, config, calls, outbox, station_id, precip_data,
              pressure_data, forecast, report, error, exit_status>>

vars == <<now, pc, fnVars, mainVars>>

----------------------------------------------------------------------------
(* Optional values *)

None == <<>>

Some(v) == <<v>>

Get(o) == o[1]

----------------------------------------------------------------------------
(* Time *)

Hour == 3600

Day == 24 * Hour

Abs(x) == IF x < 0 THEN -x ELSE x

\* obs_time.date(): the calendar date of a UTC timestamp
DateOf(t) == t \div Day

\* timedelta(days=7) of seven_days_ago
HorizonDays == 7

----------------------------------------------------------------------------
(* Bounds of the model *)

\* longest observation list drawn element by element
MaxObs == 3

\* longest observation list a request of a whole run returns
MaxRunObs == 2

\* the run times tried: 06:00:00 and 23:30:00 UTC of day 10
NowValues == {10 * Day + 6 * Hour, 10 * Day + 23 * Hour + 1800}

\* ages (now - timestamp, seconds) of the precipitation observations tried:
\* one hour, 13 hours, exactly 7 days, 7 days and a second, 8 days
PrecipAges == {Hour, 13 * Hour, 7 * Day, 7 * Day + 1, 8 * Day}

\* precipitationLastHour values tried: absent, 0 mm, 1.3 mm, 2.5 mm
PrecipReadings == {None, Some(0), Some(13), Some(25)}

\* sprinkler.hours_to_check values tried
HoursValues == {12, 200}

\* offsets (timestamp - (now - 24h), seconds) of the pressure observations
\* tried: 25 h old (exactly one hour before the mark), 24.5 h, 24.3 h and
\* 23.5 h old, and five minutes old
PressureOffsets == {-Hour, -1800, -1080, 1800, Day - 300}

\* barometricPressure values tried (Pa): absent, 0, 1007 hPa, 1013 hPa and
\* 1013.04 hPa
PressureReadings == {None, Some(0), Some(100700), Some(101300), Some(101304)}

RECURSIVE SeqsUpTo(_, _)
SeqsUpTo(S, n) ==
    IF n = 0 THEN {<<>>}
    ELSE LET shorter == SeqsUpTo(S, n - 1)
         IN  shorter \cup {Append(s, x) : s \in {t \in shorter : Len(t) = n - 1}, x \in S}

\* main() is not running: its variables hold nothing
MainIdle ==
    /\ config_file = None
    /\ config = None
    /\ calls = <<>>
    /\ outbox = <<>>
    /\ station_id = None
    /\ precip_data = None
    /\ pressure_data = None
    /\ forecast = None
    /\ report = None
    /\ error = None
    /\ exit_status = None

----------------------------------------------------------------------------
(* get_precipitation_data *)

\* round(mm / 25.4, 2) of a depth in tenths of a millimetre, in hundredths of
\* an inch.  100 * mm10 / 254 is never halfway between two integers
\* (100 * mm10 = 127 * (2k + 1) has an even left and an odd right side), so
\* rounding to nearest needs no tie rule.
MmToInches(mm10) == (100 * mm10 + 127) \div 254

PrecipObs(t, p) == [time |-> t, precip |-> p]

\* the locals before the loop (lines 80-85)
PrecipLocals0 ==
    [total_precip_mm |-> 0, observation_count |-> 0,
     latest_observation |-> None, daily_totals |-> <<>>, broke |-> FALSE]

\* the body past the horizon test (lines 95-112)
PrecipAccumulate(st, obs, cutoff_time) ==
    LET st1 == IF st.latest_observation = None
               THEN [st EXCEPT !.latest_observation = Some(obs.time)]
               ELSE st
    IN  IF obs.precip = None
        THEN st1
        ELSE LET precip_mm == Get(obs.precip)
                 st2 == IF obs.time >= cutoff_time
                        THEN [st1 EXCEPT
                                !.total_precip_mm = @ + precip_mm,
                                !.observation_count = @ + 1]
                        ELSE st1
                 obs_date == DateOf(obs.time)
                 old == st2.daily_totals
                 dates == DOMAIN old \cup {obs_date}
             IN  [st2 EXCEPT !.daily_totals =
                    [d \in dates |->
                        (IF d \in DOMAIN old THEN old[d] ELSE 0)
                        + (IF d = obs_date THEN precip_mm ELSE 0)]]

\* a loop body without the horizon test: every observation is accumulated
PrecipLoopBody_NoHorizon(st, obs, cutoff_time, seven_days_ago) ==
    PrecipAccumulate(st, obs, cutoff_time)

\* one pass of the for loop's body (lines 88-112)
PrecipLoopBody(st, obs, cutoff_time, seven_days_ago) ==
    IF obs.time < seven_days_ago
    THEN [st EXCEPT !.broke = TRUE]
    ELSE PrecipAccumulate(st, obs, cutoff_time)

\* sorted(daily_totals.items(), reverse=True) with each depth converted:
\* the (date, inches) pairs in the order the returned dict holds them
RECURSIVE SortedDesc(_)
SortedDesc(daily) ==
    IF DOMAIN daily = {} THEN <<>>
    ELSE LET top == CHOOSE d \in DOMAIN daily : \A e \in DOMAIN daily : e <= d
             rest == [d \in DOMAIN daily \ {top} |-> daily[d]]
         IN  <<[date |-> top, inches |-> MmToInches(daily[top])]>> \o SortedDesc(rest)

\* the returned dict (lines 114-130)
PrecipResult(st) ==
    [total_mm |-> st.total_precip_mm,
     total_inches |-> MmToInches(st.total_precip_mm),
     observation_count |-> st.observation_count,
     latest_observation |-> st.latest_observation,
     daily_totals |-> SortedDesc(st.daily_totals)]

CutoffTime(n, h) == n - h * Hour

SevenDaysAgo(n) == n - HorizonDays * Day

\* the observation lists tried: every list of at most MaxObs observations,
\* and a station that reported 0.5 mm once a day for the last nine days
PrecipObservations(n) == {PrecipObs(n - a, p) : a \in PrecipAges, p \in PrecipReadings}

DailyFeed(n) == [k \in 1..9 |-> PrecipObs(n - (k - 1) * Day, Some(5))]

PrecipInit ==
    /\ now \in NowValues
    /\ hours \in HoursValues
    /\ observations \in SeqsUpTo(PrecipObservations(now), MaxObs) \cup {DailyFeed(now)}
    /\ i = 0
    /\ precip = PrecipLocals0
    /\ pressure = None
    /\ ret = None
    /\ pc = "loop"
    /\ MainIdle

\* the for loop takes the next observation (lines 87-112)
PrecipLoop ==
    /\ pc = "loop"
    /\ i < Len(observations)
    /\ ~precip.broke
    /\ i' = i + 1
    /\ precip' = PrecipLoopBody(precip, observations[i + 1],
                                CutoffTime(now, hours), SevenDaysAgo(now))
    /\ UNCHANGED <<now, pc, observations, hours, pressure, ret, mainVars>>

\* the loop is over (list exhausted, or break): build the result (lines 114-130)
PrecipReturn ==
    /\ pc = "loop"
    /\ i = Len(observations) \/ precip.broke
    /\ ret' = Some(PrecipResult(precip))
    /\ pc' = "returned"
    /\ UNCHANGED <<now, observations, i, hours, precip, pressure, mainVars>>

PrecipNext == PrecipLoop \/ PrecipReturn

SpecPrecip == PrecipInit /\ [][PrecipNext]_vars

----------------------------------------------------------------------------
(* Properties of get_precipitation_data *)

PrecipReturned == pc = "returned" /\ ret # None

\* index of the first observation older than the horizon, or Len + 1
FirstOld ==
    LET old == {k \in 1..Len(observations) : observations[k].time < SevenDaysAgo(now)}
    IN  IF old = {} THEN Len(observations) + 1
        ELSE CHOOSE k \in old : \A j \in old : k <= j

RECURSIVE SumAt(_)
SumAt(K) ==
    IF K = {} THEN 0
    ELSE LET k == CHOOSE x \in K : TRUE
         IN  Get(observations[k].precip) + SumAt(K \ {k})

\* the observations before the first old one that carry a value
Counted == {k \in 1..(FirstOld - 1) : observations[k].precip # None}

CountedRecent == {k \in Counted : observations[k].time >= CutoffTime(now, hours)}

DailyKeys == {Get(ret).daily_totals[k].date : k \in 1..Len(Get(ret).daily_totals)}

\* C9: every observation that is added to a daily total or to the
\* recent-window total is no older than now - 7 days, so no key of
\* daily_totals is a date before the date of now - 7 days; the loop stops at
\* the first observation older than the horizon and nothing after it is
\* counted, whatever the order of the list: the totals are exactly the sums
\* over the observations before the first old one.
C9_WithinHorizon ==
    PrecipReturned =>
        LET r == Get(ret)
        IN  /\ \A k \in Counted : observations[k].time >= SevenDaysAgo(now)
            /\ \A d \in DailyKeys : d >= DateOf(SevenDaysAgo(now))
            /\ DailyKeys = {DateOf(observations[k].time) : k \in Counted}
            /\ \A e \in 1..Len(r.daily_totals) :
                  r.daily_totals[e].inches =
                    MmToInches(SumAt({k \in Counted :
                        DateOf(observations[k].time) = r.daily_totals[e].date}))
            /\ r.total_mm = SumAt(CountedRecent)
            /\ r.observation_count = Cardinality(CountedRecent)
            /\ i <= FirstOld

\* C9 witness: the loop broke at an observation older than the horizon, a
\* younger observation with rain follows it in the list, and rain before it
\* was counted.
C9_Witness ==
    /\ PrecipReturned
    /\ precip.broke
    /\ Get(ret).total_mm > 0
    /\ \E k \in (i + 1)..Len(observations) :
          /\ observations[k].time >= CutoffTime(now, hours)
          /\ observations[k].time >= SevenDaysAgo(now)
          /\ observations[k].precip # None
          /\ Get(observations[k].precip) > 0

\* C10 as claimed: daily_totals holds at most 7 calendar dates, most recent
\* date first.
C10_AtMostSevenDates ==
    PrecipReturned =>
        LET dt == Get(ret).daily_totals
        IN  /\ Len(dt) <= HorizonDays
            /\ \A a, b \in 1..Len(dt) : a < b => dt[a].date > dt[b].date

----------------------------------------------------------------------------
(* get_pressure_data *)

PressureObs(t, p) == [time |-> t, pressure |-> p]

\* round(x, 1) of a pressure or pressure difference in pascals (x = pa / 100
\* hPa), in tenths of a hectopascal; a tie goes to the even tenth
Round1(pa) ==
    LET q == pa \div 10
        r == pa % 10
    IN  IF r < 5 THEN q
        ELSE IF r > 5 THEN q + 1
        ELSE IF q % 2 = 0 THEN q ELSE q + 1

\* Python's truth value of an optional number: None and 0 are false
Truthy(o) == o # None /\ Get(o) # 0

\* yesterday = now - timedelta(days=1) (line 148)
Yesterday(n) == n - Day

\* the locals before the loop (lines 150-153); pressures are kept in
\* pascals, a hundred times the code's hectopascals
PressureLocals0 ==
    [current_pressure |-> None, yesterday_pressure |-> None,
     current_time |-> None, yesterday_time |-> None]

\* a loop body that keeps the first reading within the hour, not the nearest
PressureLoopBody_FirstCandidate(st, obs, yesterday) ==
    IF obs.pressure = None
    THEN st
    ELSE LET st1 == IF st.current_pressure = None
                    THEN [st EXCEPT !.current_pressure = obs.pressure,
                                    !.current_time = Some(obs.time)]
                    ELSE st
             time_diff == Abs(obs.time - yesterday)
         IN  IF time_diff < Hour /\ st1.yesterday_pressure = None
             THEN [st1 EXCEPT !.yesterday_pressure = obs.pressure,
                              !.yesterday_time = Some(obs.time)]
             ELSE st1

\* one pass of the for loop's body (lines 156-176)
PressureLoopBody(st, obs, yesterday) ==
    IF obs.pressure = None
    THEN st
    ELSE LET st1 == IF st.current_pressure = None
                    THEN [st EXCEPT !.current_pressure = obs.pressure,
                                    !.current_time = Some(obs.time)]
                    ELSE st
             time_diff == Abs(obs.time - yesterday)
         IN  IF /\ time_diff < Hour
                /\ \/ st1.yesterday_pressure = None
                   \/ time_diff < Abs(Get(st1.yesterday_time) - yesterday)
             THEN [st1 EXCEPT !.yesterday_pressure = obs.pressure,
                              !.yesterday_time = Some(obs.time)]
             ELSE st1

\* lines 178-181
PressureChange(st) ==
    IF Truthy(st.current_pressure) /\ Truthy(st.yesterday_pressure)
    THEN Some(Get(st.current_pressure) - Get(st.yesterday_pressure))
    ELSE None

\* the returned dict (lines 183-189), pressures in tenths of a hectopascal
PressureResult(st) ==
    [current_pressure |->
        IF Truthy(st.current_pressure)
        THEN Some(Round1(Get(st.current_pressure))) ELSE None,
     yesterday_pressure |->
        IF Truthy(st.yesterday_pressure)
        THEN Some(Round1(Get(st.yesterday_pressure))) ELSE None,
     pressure_change |->
        IF Truthy(PressureChange(st))
        THEN Some(Round1(Get(PressureChange(st)))) ELSE None,
     current_time |-> st.current_time,
     yesterday_time |-> st.yesterday_time]

PressureObservations(n) ==
    {PressureObs(Yesterday(n) + d, p) : d \in PressureOffsets, p \in PressureReadings}

PressureInit ==
    /\ now \in NowValues
    /\ hours = 0
    /\ observations \in SeqsUpTo(PressureObservations(now), MaxObs)
    /\ i = 0
    /\ precip = None
    /\ pressure = PressureLocals0
    /\ ret = None
    /\ pc = "loop"
    /\ MainIdle

\* the for loop takes the next observation (lines 155-176)
PressureLoop ==
    /\ pc = "loop"
    /\ i < Len(observations)
    /\ i' = i + 1
    /\ pressure' = PressureLoopBody(pressure, observations[i + 1], Yesterday(now))
    /\ UNCHANGED <<now, pc, observations, hours, precip, ret, mainVars>>

\* the list is exhausted: build the result (lines 178-189)
PressureReturn ==
    /\ pc = "loop"
    /\ i = Len(observations)
    /\ ret' = Some(PressureResult(pressure))
    /\ pc' = "returned"
    /\ UNCHANGED <<now, observations, i, hours, precip, pressure, mainVars>>

PressureNext == PressureLoop \/ PressureReturn

SpecPressure == PressureInit /\ [][PressureNext]_vars

----------------------------------------------------------------------------
(* Properties of get_pressure_data *)

PressureReturned == pc = "returned" /\ ret # None

\* the observations that carry a pressure value
WithPressure == {k \in 1..Len(observations) : observations[k].pressure # None}

Distance(k) == Abs(observations[k].time - Yesterday(now))

\* the readings within one hour of now - 24h
Candidates == {k \in WithPressure : Distance(k) < Hour}

Nearest == {k \in Candidates : \A j \in Candidates : Distance(k) <= Distance(j)}

\* the first observation that carries a pressure value
FirstWithPressure == CHOOSE k \in WithPressure : \A j \in WithPressure : k <= j

\* C6 as claimed: pressure_change is present and is current minus yesterday
\* (to one decimal) whenever a current reading and a 24h-ago reading were
\* found, also when they are equal or a value is 0; it is absent only when
\* one of the two is missing.
C6_ChangePresent ==
    PressureReturned =>
        LET r == Get(ret)
        IN  IF WithPressure # {} /\ Candidates # {}
            THEN /\ r.pressure_change # None
                 /\ \E k \in Nearest :
                       Get(r.pressure_change) =
                         Round1(Get(observations[FirstWithPressure].pressure)
                                - Get(observations[k].pressure))
            ELSE r.pressure_change = None

\* C7: the 24h-ago reading is taken from an observation that carries a
\* pressure value, lies within one hour of now - 24h and is nearest to it
\* among all such observations, on either side of the mark and wherever it
\* stands in the list; without such an observation (none closer than an
\* hour) there is no 24h-ago reading.
C7_NearestWins ==
    PressureReturned =>
        LET r == Get(ret)
        IN  IF Candidates = {}
            THEN /\ r.yesterday_time = None
                 /\ r.yesterday_pressure = None
                 /\ pressure.yesterday_pressure = None
            ELSE \E k \in Nearest :
                    /\ r.yesterday_time = Some(observations[k].time)
                    /\ pressure.yesterday_pressure = observations[k].pressure
                    /\ r.yesterday_pressure # None =>
                          r.yesterday_pressure =
                            Some(Round1(Get(observations[k].pressure)))

\* C7 witness: a reading newer than the mark (23.5 h old) comes first in the
\* list, a nearer one on the older side (24.3 h old) follows with another
\* value, and the later, nearer one is the reading returned.
C7_Witness ==
    /\ PressureReturned
    /\ \E a, b \in Candidates :
          /\ a < b
          /\ Distance(b) < Distance(a)
          /\ observations[a].time > Yesterday(now)
          /\ observations[b].time < Yesterday(now)
          /\ observations[a].pressure # observations[b].pressure
          /\ Get(ret).yesterday_time = Some(observations[b].time)
          /\ Get(ret).yesterday_pressure = Some(Round1(Get(observations[b].pressure)))

----------------------------------------------------------------------------
(* main() and the functions it calls *)

\* sprinkler.threshold values tried (hundredths of an inch): 0.05, 0.10, 0.25
ThresholdValues == {5, 10, 25}

\* the recipient keys of the email section: a to_emails list, a to_emails
\* string, the old to_email string, or neither key
RecipientKinds == {"to_emails", "to_emails_str", "to_email", "none"}

\* config.toml: missing, not valid TOML, valid without the location and
\* sprinkler sections, or complete
ConfigFile(state, sections, recipients, threshold, hours_to_check) ==
    [state |-> state, sections |-> sections, recipients |-> recipients,
     threshold |-> threshold, hours_to_check |-> hours_to_check]

ConfigFiles ==
    {ConfigFile("missing", FALSE, "none", 0, 0),
     ConfigFile("invalid", FALSE, "none", 0, 0)}
    \cup {ConfigFile("ok", FALSE, r, 0, 0) : r \in {"to_emails", "none"}}
    \cup {ConfigFile("ok", TRUE, r, t, h) :
            r \in RecipientKinds, t \in ThresholdValues, h \in HoursValues}

\* load_config (lines 23-34): the parsed file, or nothing when it raises
LoadConfig(file) == IF file.state = "ok" THEN Some(file) ELSE None

Call(fn, arg, ok, where) == [fn |-> fn, arg |-> arg, ok |-> ok, where |-> where]

\* get_precipitation_data on a whole response (lines 76-130)
RECURSIVE PrecipFold(_, _, _, _, _)
PrecipFold(st, obs, k, cutoff_time, seven_days_ago) ==
    IF k > Len(obs) \/ st.broke THEN st
    ELSE PrecipFold(PrecipLoopBody(st, obs[k], cutoff_time, seven_days_ago),
                    obs, k + 1, cutoff_time, seven_days_ago)

get_precipitation_data(obs, h, n) ==
    PrecipResult(PrecipFold(PrecipLocals0, obs, 1, CutoffTime(n, h), SevenDaysAgo(n)))

\* get_pressure_data on a whole response (lines 146-189)
RECURSIVE PressureFold(_, _, _, _)
PressureFold(st, obs, k, yesterday) ==
    IF k > Len(obs) THEN st
    ELSE PressureFold(PressureLoopBody(st, obs[k], yesterday), obs, k + 1, yesterday)

get_pressure_data(obs, n) ==
    PressureResult(PressureFold(PressureLocals0, obs, 1, Yesterday(n)))

\* the observations a request of a whole run may return
RunPrecipObservations(n) ==
    {PrecipObs(n - a, p) : a \in {Hour, 13 * Hour}, p \in {None, Some(13), Some(25)}}

RunPressureObservations(n) ==
    {PressureObs(Yesterday(n) + d, p) :
        d \in {-1080, Day - 300}, p \in {Some(100700), Some(101300)}}

\* the first forecast period, as get_forecast returns it (lines 219-229)
Period == [name |-> "Tonight", short_forecast |-> "Clear"]

\* a get_forecast that indexes the first period without testing the list:
\* no periods raise an IndexError (nothing is returned)
get_forecast_IndexError(periods) ==
    IF periods = <<>> THEN None ELSE Some(Some(periods[1]))

\* what get_forecast returns for the periods of a fetched forecast (lines
\* 213-229): Python's None for no periods, else the first period
get_forecast(periods) ==
    IF periods = <<>> THEN Some(None) ELSE Some(Some(periods[1]))

PeriodsArg(periods) == IF periods = <<>> THEN "no periods" ELSE "periods"

\* the recommendation with the comparison turned strict
Recommendation_Strict(total_precip, threshold) ==
    IF total_precip > threshold
    THEN "NO - Sufficient rainfall"
    ELSE "YES - Run sprinkler"

\* lines 301-307
Recommendation(total_precip, threshold) ==
    IF total_precip >= threshold
    THEN "NO - Sufficient rainfall"
    ELSE "YES - Run sprinkler"

\* sprinkler.get('pressure_change_threshold', 6), in tenths of a hectopascal
DefaultPressureThreshold == 60

\* lines 320-341
PressureText(pd, pressure_threshold) ==
    IF Truthy(pd.current_pressure) /\ pd.pressure_change # None
    THEN LET change == Get(pd.pressure_change)
         IN  IF Abs(change) >= pressure_threshold /\ change < 0
             THEN "SIGNIFICANT - falling"
             ELSE IF change > 0 THEN "normal - rising"
                  ELSE "normal - falling slightly"
    ELSE "  Data unavailable"

\* lines 344-352
ForecastText(fc) ==
    IF fc # None THEN Get(fc).name ELSE "  Forecast unavailable"

\* lines 300-384
EmailBody(cfg, pd, prd, fc) ==
    [recommendation |-> Recommendation(pd.total_inches, cfg.threshold),
     total_inches |-> pd.total_inches,
     threshold |-> cfg.threshold,
     daily_rows |-> Len(pd.daily_totals),
     pressure_text |-> PressureText(prd, DefaultPressureThreshold),
     forecast_text |-> ForecastText(fc)]

\* the recipient list send_email builds (lines 240-249), or nothing when it
\* raises for want of a recipient
ToEmails(cfg) ==
    CASE cfg.recipients = "to_emails"     -> Some(<<"a@example.org", "b@example.org">>)
      [] cfg.recipients = "to_emails_str" -> Some(<<"a@example.org">>)
      [] cfg.recipients = "to_email"      -> Some(<<"a@example.org">>)
      [] OTHER                            -> None

\* The SMTP session of send_email (lines 258-265).  Everything in the with
\* block is inside the try: the session may fail before the server accepts
\* the message (connect, starttls, login, send_message), or complete, or
\* fail after the server accepted it, when the with block closes the session
\* (smtplib sends QUIT and raises on an error reply) or the print of line
\* 263 fails.  Either failure leaves send_email by the raise of line 265.
SmtpOutcomes == {"refused", "sent", "sent_then_error"}

SUCCESS_SUBJECT == "Weather update!"

ERROR_SUBJECT == "Weather update - ERROR"

Message(subject, to) == [subject |-> subject, to |-> to]

\* send_email (lines 235-265) with SMTP outcome o: whether it returns
\* without raising, and the outbox afterwards
SendOk(cfg, o) == ToEmails(cfg) # None /\ o = "sent"

SendOutbox(box, cfg, subject, o) ==
    IF ToEmails(cfg) # None /\ o \in {"sent", "sent_then_error"}
    THEN Append(box, Message(subject, Get(ToEmails(cfg))))
    ELSE box

Init ==
    /\ now \in NowValues
    /\ config_file \in ConfigFiles
    /\ pc = "load_config"
    /\ config = None
    /\ calls = <<>>
    /\ outbox = <<>>
    /\ station_id = None
    /\ precip_data = None
    /\ pressure_data = None
    /\ forecast = None
    /\ report = None
    /\ error = None
    /\ exit_status = None
    /\ observations = <<>>
    /\ i = 0
    /\ hours = 0
    /\ precip = None
    /\ pressure = None
    /\ ret = None

\* an exception reaches main's except clause (line 395)
Raise(msg) ==
    /\ pc' = "except"
    /\ error' = Some(msg)

\* lines 272-283: load the configuration and read the location and sprinkler
\* settings
ReadConfig ==
    /\ pc = "load_config"
    /\ LET loaded == LoadConfig(config_file)
       IN  /\ calls' = Append(calls, Call("load_config", "", loaded # None, "try"))
           /\ IF loaded = None
              THEN /\ Raise("Configuration file not found or not valid")
                   /\ UNCHANGED config
              ELSE /\ config' = loaded
                   /\ IF Get(loaded).sections
                      THEN pc' = "get_station" /\ UNCHANGED error
                      ELSE Raise("KeyError")
    /\ UNCHANGED <<now, fnVars, config_file, outbox, station_id, precip_data,
                   pressure_data, forecast, report, exit_status>>

\* line 286: get_nws_observation_station (lines 38-63)
GetStation ==
    /\ pc = "get_station"
    /\ \E outcome \in {"request_error", "no_stations", "station"} :
          /\ calls' = Append(calls, Call("get_nws_observation_station", "",
                                         outcome = "station", "try"))
          /\ IF outcome = "station"
             THEN /\ station_id' = Some("KXYZ")
                  /\ pc' = "get_precipitation"
                  /\ UNCHANGED error
             ELSE /\ Raise(IF outcome = "no_stations"
                           THEN "No observation stations found for this location"
                           ELSE "Error fetching NWS station")
                  /\ UNCHANGED station_id
    /\ UNCHANGED <<now, fnVars, config_file, config, outbox, precip_data,
                   pressure_data, forecast, report, exit_status>>

\* a precipitation fetch that goes on after a failed request
FetchPrecipitation_GoOn ==
    /\ pc = "get_precipitation"
    /\ \E ok \in BOOLEAN :
          /\ calls' = Append(calls, Call("get_precipitation_data", "", ok, "try"))
          /\ precip_data' = Some(get_precipitation_data(<<>>, Get(config).hours_to_check, now))
          /\ pc' = "get_pressure"
    /\ UNCHANGED <<now, fnVars, config_file, config, outbox, station_id,
                   pressure_data, forecast, report, error, exit_status>>

\* line 290: get_precipitation_data (lines 66-133)
FetchPrecipitation ==
    /\ pc = "get_precipitation"
    /\ \/ /\ calls' = Append(calls, Call("get_precipitation_data", "", FALSE, "try"))
          /\ Raise("Error fetching precipitation data")
          /\ UNCHANGED precip_data
       \/ \E obs \in SeqsUpTo(RunPrecipObservations(now), MaxRunObs) :
             /\ calls' = Append(calls, Call("get_precipitation_data", "", TRUE, "try"))
             /\ precip_data' =
                  Some(get_precipitation_data(obs, Get(config).hours_to_check, now))
             /\ pc' = "get_pressure"
             /\ UNCHANGED error
    /\ UNCHANGED <<now, fnVars, config_file, config, outbox, station_id,
                   pressure_data, forecast, report, exit_status>>

\* line 294: get_pressure_data (lines 136-192)
FetchPressure ==
    /\ pc = "get_pressure"
    /\ \/ /\ calls' = Append(calls, Call("get_pressure_data", "", FALSE, "try"))
          /\ Raise("Error fetching pressure data")
          /\ UNCHANGED pressure_data
       \/ \E obs \in SeqsUpTo(RunPressureObservations(now), MaxRunObs) :
             /\ calls' = Append(calls, Call("get_pressure_data", "", TRUE, "try"))
             /\ pressure_data' = Some(get_pressure_data(obs, now))
             /\ pc' = "get_forecast"
             /\ UNCHANGED error
    /\ UNCHANGED <<now, fnVars, config_file, config, outbox, station_id,
                   precip_data, forecast, report, exit_status>>

\* line 298: get_forecast (lines 195-232)
FetchForecast ==
    /\ pc = "get_forecast"
    /\ \/ /\ calls' = Append(calls, Call("get_forecast", "", FALSE, "try"))
          /\ Raise("Error fetching forecast")
          /\ UNCHANGED forecast
       \/ \E periods \in {<<>>, <<Period>>} :
             LET returned == get_forecast(periods)
             IN  /\ calls' = Append(calls, Call("get_forecast", PeriodsArg(periods),
                                                returned # None, "try"))
                 /\ IF returned # None
                    THEN /\ forecast' = returned
                         /\ pc' = "build_report"
                         /\ UNCHANGED error
                    ELSE /\ Raise("IndexError")
                         /\ UNCHANGED forecast
    /\ UNCHANGED <<now, fnVars, config_file, config, outbox, station_id,
                   precip_data, pressure_data, report, exit_status>>

\* lines 300-387: the recommendation and the text of the report
BuildReport ==
    /\ pc = "build_report"
    /\ report' = Some(EmailBody(Get(config), Get(precip_data),
                                Get(pressure_data), Get(forecast)))
    /\ pc' = "send_report"
    /\ UNCHANGED <<now, fnVars, config_file, config, calls, outbox, station_id,
                   precip_data, pressure_data, forecast, error, exit_status>>

\* a send of the report whose failure is not noticed
SendReport_IgnoreFailure ==
    /\ pc = "send_report"
    /\ \E o \in SmtpOutcomes :
          /\ calls' = Append(calls, Call("send_email", SUCCESS_SUBJECT,
                                         SendOk(Get(config), o), "try"))
          /\ outbox' = SendOutbox(outbox, Get(config), SUCCESS_SUBJECT, o)
          /\ pc' = "exited"
          /\ exit_status' = Some(0)
    /\ UNCHANGED <<now, fnVars, config_file, config, station_id, precip_data,
                   pressure_data, forecast, report, error>>

\* lines 390-393 and 408: send the report and return 0
SendReport ==
    /\ pc = "send_report"
    /\ \E o \in SmtpOutcomes :
          /\ calls' = Append(calls, Call("send_email", SUCCESS_SUBJECT,
                                         SendOk(Get(config), o), "try"))
          /\ outbox' = SendOutbox(outbox, Get(config), SUCCESS_SUBJECT, o)
          /\ IF SendOk(Get(config), o)
             THEN /\ pc' = "exited"
                  /\ exit_status' = Some(0)
                  /\ UNCHANGED error
             ELSE /\ Raise("Error sending email")
                  /\ UNCHANGED exit_status
    /\ UNCHANGED <<now, fnVars, config_file, config, station_id, precip_data,
                   pressure_data, forecast, report>>

\* lines 395-401 (and 403-406 when load_config raises): the handler prints
\* the error and loads the configuration again
HandleError ==
    /\ pc = "except"
    /\ LET loaded == LoadConfig(config_file)
       IN  /\ calls' = Append(calls, Call("load_config", "", loaded # None, "except"))
           /\ IF loaded = None
              THEN /\ pc' = "exited"
                   /\ exit_status' = Some(1)
                   /\ UNCHANGED config
              ELSE /\ config' = loaded
                   /\ pc' = "send_error"
                   /\ UNCHANGED exit_status
    /\ UNCHANGED <<now, fnVars, config_file, outbox, station_id, precip_data,
                   pressure_data, forecast, report, error>>

\* an error email sent outside any try: its failure leaves main()
SendErrorEmail_Unguarded ==
    /\ pc = "send_error"
    /\ \E o \in SmtpOutcomes :
          /\ calls' = Append(calls, Call("send_email", ERROR_SUBJECT,
                                         SendOk(Get(config), o), "except"))
          /\ outbox' = SendOutbox(outbox, Get(config), ERROR_SUBJECT, o)
          /\ IF SendOk(Get(config), o)
             THEN pc' = "exited" /\ exit_status' = Some(1)
             ELSE pc' = "raised" /\ UNCHANGED exit_status
    /\ UNCHANGED <<now, fnVars, config_file, config, station_id, precip_data,
                   pressure_data, forecast, report, error>>

\* lines 402-406: send the error email; the bare except swallows a failure;
\* return 1
SendErrorEmail ==
    /\ pc = "send_error"
    /\ \E o \in SmtpOutcomes :
          /\ calls' = Append(calls, Call("send_email", ERROR_SUBJECT,
                                         SendOk(Get(config), o), "except"))
          /\ outbox' = SendOutbox(outbox, Get(config), ERROR_SUBJECT, o)
          /\ pc' = "exited"
          /\ exit_status' = Some(1)
    /\ UNCHANGED <<now, fnVars, config_file, config, station_id, precip_data,
                   pressure_data, forecast, report, error>>

Next ==
    \/ ReadConfig
    \/ GetStation
    \/ FetchPrecipitation
    \/ FetchPressure
    \/ FetchForecast
    \/ BuildReport
    \/ SendReport
    \/ HandleError
    \/ SendErrorEmail

Spec == Init /\ [][Next]_vars

----------------------------------------------------------------------------
(* Properties of main() *)

TryCalls == SelectSeq(calls, LAMBDA c : c.where = "try")

HandlerCalls == SelectSeq(calls, LAMBDA c : c.where = "except")

\* the order of the calls in main's try block (lines 272-391)
StepOrder ==
    <<"load_config", "get_nws_observation_station", "get_precipitation_data",
      "get_pressure_data", "get_forecast", "send_email">>

FetchSteps ==
    {"get_nws_observation_station", "get_precipitation_data",
     "get_pressure_data", "get_forecast"}

ReportSent ==
    \E k \in 1..Len(calls) : calls[k] = Call("send_email", SUCCESS_SUBJECT, TRUE, "try")

\* C1: main() returns 0 exactly when the report was generated and its
\* send_email call returned without raising; every other run (a failed
\* configuration load, station lookup, fetch or send) returns 1.
C1_ExitStatus ==
    pc = "exited" =>
        /\ exit_status \in {Some(0), Some(1)}
        /\ exit_status = Some(0) <=> (report # None /\ ReportSent)
        /\ (error # None \/ \E k \in 1..Len(calls) : ~calls[k].ok) => exit_status = Some(1)

\* C1 witness: the report was generated, its send failed, and main returned 1.
C1_Witness ==
    /\ pc = "exited"
    /\ report # None
    /\ \E k \in 1..Len(calls) : calls[k] = Call("send_email", SUCCESS_SUBJECT, FALSE, "try")
    /\ exit_status = Some(1)

\* C2: when a step raises, main() makes exactly one error-notification
\* attempt: it loads the configuration once more and, if that succeeds,
\* sends one email with the subject "Weather update - ERROR"; a failure of
\* the attempt is swallowed: nothing is raised out of main() and it
\* returns 1.  Without an error there is no such attempt.
C2_OneErrorNotification ==
    /\ pc # "raised"
    /\ error = None => HandlerCalls = <<>>
    /\ (pc = "exited" /\ error # None) =>
          /\ exit_status = Some(1)
          /\ Len(HandlerCalls) \in {1, 2}
          /\ HandlerCalls[1].fn = "load_config"
          /\ HandlerCalls[1].ok <=> Len(HandlerCalls) = 2
          /\ Len(HandlerCalls) = 2 =>
                /\ HandlerCalls[2].fn = "send_email"
                /\ HandlerCalls[2].arg = ERROR_SUBJECT
          /\ Cardinality({k \in 1..Len(outbox) : outbox[k].subject = ERROR_SUBJECT}) <= 1

\* C2 witness: a fetch failed, the configuration was loaded again, the error
\* email could not be sent either, and main returned 1.
C2_Witness ==
    /\ pc = "exited"
    /\ error = Some("Error fetching pressure data")
    /\ Len(HandlerCalls) = 2
    /\ ~HandlerCalls[2].ok
    /\ outbox = <<>>
    /\ exit_status = Some(1)

\* C3: the calls of a run are made in the order load_config, station,
\* precipitation, pressure, forecast, send of the report, each only after
\* every earlier one succeeded; once one fails, no later fetch and no send
\* of the report follows; no fetch is made twice; with config.toml missing
\* nothing but load_config is ever called (no network call).
C3_SequentialNoRetry ==
    /\ Len(TryCalls) <= Len(StepOrder)
    /\ \A k \in 1..Len(TryCalls) :
          /\ TryCalls[k].fn = StepOrder[k]
          /\ \A j \in 1..(k - 1) : TryCalls[j].ok
    /\ \A k \in 1..Len(calls) : \A j \in 1..(k - 1) :
          calls[j].where = "except" => calls[k].where = "except"
    /\ \A k \in 1..Len(HandlerCalls) : HandlerCalls[k].fn \notin FetchSteps
    /\ \A f \in FetchSteps :
          Cardinality({k \in 1..Len(calls) : calls[k].fn = f}) <= 1
    /\ config_file.state = "missing" =>
          \A k \in 1..Len(calls) : calls[k].fn = "load_config"

\* C3 witness: the pressure fetch failed after the precipitation fetch
\* succeeded, the run is over, and neither the forecast nor the report send
\* was attempted.
C3_Witness ==
    /\ pc = "exited"
    /\ Len(TryCalls) = 4
    /\ TryCalls[3].ok
    /\ ~TryCalls[4].ok
    /\ forecast = None
    /\ report = None

\* C4 as claimed: at most one email message is sent in a run (never the
\* report and the error report both), and no send raises out of main().
C4_AtMostOneEmail ==
    /\ Len(outbox) <= 1
    /\ pc # "raised"

\* C5: the recommendation, taken on the two-decimal total_inches of the
\* recent window, is "YES - Run sprinkler" exactly when total_inches is
\* below the threshold; at total_inches = threshold it is
\* "NO - Sufficient rainfall".
C5_Recommendation ==
    report # None =>
        LET r == Get(report)
            total == Get(precip_data).total_inches
            threshold == Get(config).threshold
        IN  /\ total = MmToInches(Get(precip_data).total_mm)
            /\ r.recommendation = "YES - Run sprinkler" <=> total < threshold
            /\ r.recommendation \in {"YES - Run sprinkler", "NO - Sufficient rainfall"}
            /\ total = threshold => r.recommendation = "NO - Sufficient rainfall"

\* C5 witness: rain fell, the total equals the threshold, and the report
\* says not to run the sprinkler.
C5_Witness ==
    /\ report # None
    /\ Get(precip_data).total_inches > 0
    /\ Get(precip_data).total_inches = Get(config).threshold
    /\ Get(report).recommendation = "NO - Sufficient rainfall"

ZeroPeriods ==
    \E k \in 1..Len(calls) : calls[k].fn = "get_forecast" /\ calls[k].arg = "no periods"

\* C8: a forecast fetched with zero periods does not abort the run:
\* get_forecast returns None, the report is built with "Forecast
\* unavailable", the only email attempted next is the report, and main()
\* returns 0 with the report as the one message when that send succeeds.
C8_EmptyForecast ==
    ZeroPeriods =>
        /\ forecast = Some(None)
        /\ \A k \in 1..Len(calls) : calls[k].fn = "get_forecast" => calls[k].ok
        /\ pc \in {"build_report", "send_report", "except", "send_error", "exited"}
        /\ pc # "build_report" =>
              /\ report # None
              /\ Get(report).forecast_text = "  Forecast unavailable"
        /\ error # None => error = Some("Error sending email")
        /\ (pc = "exited" /\ ReportSent) =>
              /\ exit_status = Some(0)
              /\ error = None
              /\ Len(outbox) = 1
              /\ outbox[1].subject = SUCCESS_SUBJECT

\* C8 witness: the forecast had no periods, the report was sent and main
\* returned 0.
C8_Witness ==
    /\ ZeroPeriods
    /\ pc = "exited"
    /\ exit_status = Some(0)
    /\ Get(report).forecast_text = "  Forecast unavailable"
    /\ outbox = <<Message(SUCCESS_SUBJECT, <<"a@example.org">>)>>

====
